---- MODULE Spec2Model ----
(***************************************************************************)
(* dom-to-pptx: the driver exportToPptx, the per-slide traversal           *)
(* processSlide/collect, the node classifier createRenderItem and the      *)
(* helpers of utils.js they call, as a state machine.                      *)
(*                                                                         *)
(* The document (the Layout/Style Source) is an input: a sequence of node  *)
(* records in document order, each with its parent and the computed-style  *)
(* properties the code reads.  Strings the code parses are kept as strings *)
(* or as their token structure and are parsed by operators that follow the *)
(* code.                                                                   *)
(***************************************************************************)
EXTENDS Integers, Sequences, FiniteSets, TLC

\* ------------------------------------------------------------------ bounds

\* Most elements in one document (all slide roots' subtrees together).
MaxNodes == 3
\* Most entries in the target array given to exportToPptx.
MaxRoots == 2
\* Longest accumulation list whose permutations are all sorted.
MaxPermLen == 4

\* --------------------------------------------------------------- constants

PPI == 96
PPTX_WIDTH_IN == 10
\* 5.625 inches, as the fraction 45/8
PPTX_HEIGHT_IN == <<45, 8>>

\* ------------------------------------------------------- sequence helpers

RECURSIVE SeqSum(_)
SeqSum(s) == IF s = <<>> THEN 0 ELSE Head(s) + SeqSum(Tail(s))

Range(s) == {s[i] : i \in 1..Len(s)}

\* The ascending sequence of the members of a finite set of integers.
RECURSIVE SetToSeq(_)
SetToSeq(S) ==
  IF S = {} THEN <<>>
  ELSE LET m == CHOOSE x \in S : \A y \in S : x <= y
       IN <<m>> \o SetToSeq(S \ {m})

\* ------------------------------------------------------ utils.js: parsing

NoHex == <<>>

\* A colour string, by its syntax: "" (empty), the keyword transparent,
\* rgb(r, g, b), rgba(r, g, b, a) written with or without spaces after the
\* commas; a is the alpha in percent.
Color(fmt, spaced, r, g, b, a) ==
  [fmt |-> fmt, spaced |-> spaced, r |-> r, g |-> g, b |-> b, a |-> a]

Transparent == Color("transparent", TRUE, 0, 0, 0, 0)
Red == Color("rgb", TRUE, 255, 0, 0, 100)
Black == Color("rgb", TRUE, 0, 0, 0, 100)

\* A "#..." string, by the characters after the "#".
HexColor(digits) == [fmt |-> "hex", digits |-> digits]

\* hex.split('').map(c => c+c).join('')
DoubledDigits(digits) ==
  [i \in 1..(2 * Len(digits)) |-> digits[(i + 1) \div 2]]

\* hex.toUpperCase()
UpperCaseHex(digits) ==
  [i \in 1..Len(digits) |->
     CASE digits[i] = "a" -> "A" [] digits[i] = "b" -> "B"
       [] digits[i] = "c" -> "C" [] digits[i] = "d" -> "D"
       [] digits[i] = "e" -> "E" [] digits[i] = "f" -> "F"
       [] OTHER -> digits[i]]

\* The hex of the other formats is the triple <<r, g, b>>, for the six
\* digits toString(16) gives; the hex of a "#..." string is its digits.
parseColor(str) ==
  IF \/ str.fmt \in {"empty", "transparent"}
     \/ /\ str.fmt = "rgba" /\ str.spaced
        /\ str.r = 0 /\ str.g = 0 /\ str.b = 0 /\ str.a = 0
  THEN [hex |-> NoHex, opacity |-> 0]
  ELSE IF str.fmt = "hex"
  THEN [hex |-> UpperCaseHex(IF Len(str.digits) = 3
                             THEN DoubledDigits(str.digits)
                             ELSE str.digits),
        opacity |-> 100]
  ELSE [hex |-> <<str.r, str.g, str.b>>,
        opacity |-> IF str.fmt = "rgba" THEN str.a ELSE 100]

\* parseInt on the z-index strings of the model's documents.
parseInt(s) ==
  CASE s = "-1" -> -1
    [] s = "0" -> 0
    [] s = "1" -> 1
    [] s = "2" -> 2

\* A transform string, by its structure: the keyword none, or a function
\* name followed (paren) or not by a parenthesised, comma-separated list of
\* numbers.
TransformNone == [none |-> TRUE, paren |-> FALSE, vals |-> <<>>]
TransformMatrix(vals) == [none |-> FALSE, paren |-> TRUE, vals |-> vals]
\* e.g. the string "rotate": no "(" in it
TransformMalformed == [none |-> FALSE, paren |-> FALSE, vals |-> <<>>]

\* Math.round(Math.atan2(b, a) * 180 / PI) for a, b in -1..1.
Atan2Deg(b, a) ==
  CASE a = 0 /\ b = 0 -> 0
    [] a = 1 /\ b = 0 -> 0
    [] a = 1 /\ b = 1 -> 45
    [] a = 0 /\ b = 1 -> 90
    [] a = -1 /\ b = 1 -> 135
    [] a = -1 /\ b = 0 -> 180
    [] a = -1 /\ b = -1 -> -135
    [] a = 0 /\ b = -1 -> -90
    [] a = 1 /\ b = -1 -> -45

\* getRotation throws a TypeError when the string has no "(":
\* transformStr.split('(')[1] is undefined and .split is read of it.
getRotationThrows(transformStr) ==
  /\ ~transformStr.none
  /\ ~transformStr.paren

getRotation(transformStr) ==
  IF transformStr.none THEN 0
  ELSE IF Len(transformStr.vals) < 4 THEN 0
  ELSE Atan2Deg(transformStr.vals[2], transformStr.vals[1])

\* getSoftEdges: null (0 here) without a blur(..px) filter, else
\* blur * 0.75 * scale; the model keeps the blur radius in px.
getSoftEdges(filterBlur) == filterBlur

\* getBorderInfo is imported by index.js and is not in utils.js: after the
\* specification's Border Resolver.  sides is <<top, right, bottom, left>>,
\* each a width in px.
getBorderInfo(sides) ==
  IF \A i \in 1..4 : sides[i] = 0 THEN [type |-> "none", sides |-> sides]
  ELSE IF \A i \in 1..4 : sides[i] = sides[1]
  THEN [type |-> "uniform", sides |-> sides]
  ELSE [type |-> "composite", sides |-> sides]

\* ---------------------------------------------------------- the document

Rect(left, top, width, height) ==
  [left |-> left, top |-> top, width |-> width, height |-> height]

\* A plain visible block element with no paint of its own.
BaseNode ==
  [parent |-> 0, hasParentElement |-> TRUE, tag |-> "DIV",
   display |-> "block", visibility |-> "visible", opacity |-> "1",
   rect |-> Rect(0, 0, 96, 48), offsetWidth |-> 96, offsetHeight |-> 48,
   zIndex |-> "auto", transform |-> TransformNone, ownText |-> FALSE,
   backgroundColor |-> Transparent, backgroundImage |-> "none",
   backgroundClip |-> "border-box", color |-> Black,
   fontSize |-> 16, border |-> <<0, 0, 0, 0>>, borderColor |-> Black,
   borderRadius |-> 0, boxShadow |-> <<>>, filterBlur |-> 0]

\* node.children, in document order
Children(doc, n) == SetToSeq({c \in 1..Len(doc) : doc[c].parent = n})

RECURSIVE Descendants(_, _)
Descendants(doc, n) ==
  LET cs == {c \in 1..Len(doc) : doc[c].parent = n}
  IN cs \cup UNION {Descendants(doc, c) : c \in cs}

Subtree(doc, n) == {n} \cup Descendants(doc, n)

\* node.textContent.trim().length > 0
HasTextContent(doc, n) == \E m \in Subtree(doc, n) : doc[m].ownText

isInline(el) ==
  \/ el.display \in {"inline", "inline-block", "inline-flex"}
  \/ el.tag \in {"SPAN", "B", "STRONG", "EM", "I", "A", "SMALL"}

isTextContainer(doc, n) ==
  IF ~HasTextContent(doc, n) THEN FALSE
  ELSE IF Children(doc, n) = <<>> THEN TRUE
  ELSE \A c \in Range(Children(doc, n)) : isInline(doc[c])

\* ------------------------------------------------- index.js: render items

NoData == ""

\* The inches-based geometry of an item, kept as the inputs it is computed
\* from: the LayoutConfig, the node's bounding box and layout-box size, and
\* what the branch changes of it (the bullet shift of a list item, the
\* padding of a blurred image, the side of a composite-border rectangle).
Geom(config, node, part, bulletPx, padPx) ==
  [config |-> config, rect |-> node.rect,
   widthPx |-> IF node.offsetWidth # 0 THEN node.offsetWidth
               ELSE node.rect.width,
   heightPx |-> IF node.offsetHeight # 0 THEN node.offsetHeight
                ELSE node.rect.height,
   part |-> part, bulletPx |-> bulletPx, padPx |-> padPx]

\* An item without a fill option, or with fill: {type: "none"}
NoFill == NoHex

\* fill is the colour of the fill option of a shape or of a text merged
\* into a shape.
RenderItem(type, zIndex, domOrder, shapeType, data, hasText, geom, rotate, fill) ==
  [type |-> type, zIndex |-> zIndex, domOrder |-> domOrder,
   shapeType |-> shapeType, data |-> data, hasText |-> hasText,
   geom |-> geom, rotate |-> rotate, fill |-> fill]

\* IsHiddenStyle without the test of the opacity.
IsHiddenStyleNoOpacity(style) ==
  \/ style.display = "none"
  \/ style.visibility = "hidden"

\* The skip test on the computed style.
IsHiddenStyle(style) ==
  \/ style.display = "none"
  \/ style.visibility = "hidden"
  \/ style.opacity = "0"

IsZeroArea(rect) == rect.width = 0 \/ rect.height = 0

\* A zIndex that ignores the element's own z-index.
ResolveZIndexAlwaysZero(style) == 0

ResolveZIndex(style) ==
  IF style.zIndex # "auto" THEN parseInt(style.zIndex) ELSE 0

\* SvgResult that returns null, as a skipped node does, when the
\* rasterization gave no payload: the children are then visited.
SvgResultNullWhenNoPayload(node, config, zIndex, domOrder, rotation, pngData) ==
  IF pngData # NoData
  THEN [kind |-> "result",
        items |-> <<RenderItem("image", zIndex, domOrder, "", pngData, FALSE,
                               Geom(config, node, "box", 0, 0), rotation,
                               NoFill)>>,
        stopRecursion |-> TRUE]
  ELSE [kind |-> "null", items |-> <<>>, stopRecursion |-> FALSE]

\* The SVG branch: one image item when the rasterization gave a payload,
\* and the node consumed either way.
SvgResult(node, config, zIndex, domOrder, rotation, pngData) ==
  [kind |-> "result",
   items |-> IF pngData # NoData
             THEN <<RenderItem("image", zIndex, domOrder, "", pngData, FALSE,
                               Geom(config, node, "box", 0, 0), rotation,
                               NoFill)>>
             ELSE <<>>,
   stopRecursion |-> TRUE]

\* window.getComputedStyle(node.parentElement) with no parent element is a
\* TypeError; it is read only when the IMG's own border radius is 0.
ImgThrows(node) == node.borderRadius = 0 /\ ~node.hasParentElement

ImgResult(node, config, zIndex, domOrder, rotation, processed) ==
  [kind |-> "result",
   items |-> IF processed # NoData
             THEN <<RenderItem("image", zIndex, domOrder, "", processed,
                               FALSE, Geom(config, node, "box", 0, 0),
                               rotation, NoFill)>>
             ELSE <<>>,
   stopRecursion |-> TRUE]

\* createCompositeBorderItems: one rectangle per side of positive width,
\* in the order top, right, bottom, left.
SideName(i) == <<"top", "right", "bottom", "left">>[i]

createCompositeBorderItems(sides, node, config, zIndex, domOrder, bulletPx) ==
  LET side(i) ==
        IF sides[i] > 0
        THEN <<RenderItem("shape", zIndex + 1, domOrder, "rect", NoData,
                          FALSE, Geom(config, node, SideName(i), bulletPx, 0),
                          0, parseColor(node.borderColor).hex)>>
        ELSE <<>>
  IN side(1) \o side(2) \o side(3) \o side(4)

isImageWrapper(doc, n) ==
  LET node == doc[n]
      widthPx == IF node.offsetWidth # 0 THEN node.offsetWidth
                 ELSE node.rect.width
      heightPx == IF node.offsetHeight # 0 THEN node.offsetHeight
                  ELSE node.rect.height
      imgs == {c \in Range(Children(doc, n)) : doc[c].tag = "IMG"}
  IN IF imgs = {} THEN FALSE
     ELSE LET imgChild == doc[CHOOSE c \in imgs : \A d \in imgs : c <= d]
              childW == IF imgChild.offsetWidth # 0 THEN imgChild.offsetWidth
                        ELSE imgChild.rect.width
              childH == IF imgChild.offsetHeight # 0
                        THEN imgChild.offsetHeight
                        ELSE imgChild.rect.height
          IN childW >= widthPx - 2 /\ childH >= heightPx - 2

\* isCircle, on integers: borderRadius >= min(w, h) / 2 - 1 and |w - h| < 2
IsCircle(borderRadius, widthPx, heightPx) ==
  LET m == IF widthPx < heightPx THEN widthPx ELSE heightPx
      d == IF widthPx < heightPx THEN heightPx - widthPx
           ELSE widthPx - heightPx
  IN 2 * borderRadius >= m - 2 /\ d < 2

ShapeTypeOf(borderRadius, widthPx, heightPx) ==
  IF IsCircle(borderRadius, widthPx, heightPx) THEN "ellipse"
  ELSE IF borderRadius > 0 THEN "roundRect"
  ELSE "rect"

\* generateGradientSVG: null when the string does not match
\* linear-gradient\((.*)\)
generateGradientSVG(bgString) ==
  IF bgString = "linear-gradient" THEN NoData ELSE "gradientSVG"

\* The branch of a node painted by a gradient or a blurred fill: the
\* background image, then the text one zIndex above, then the composite
\* border rectangles one zIndex above.
GradientBranchItems(node, config, zIndex, domOrder, rotation, softEdge, bulletPx, textPayload, hasCompositeBorder, borderInfo) ==
  LET bgData == IF softEdge # 0 THEN "blurSVG"
                ELSE generateGradientSVG(node.backgroundImage)
      padPx == IF softEdge # 0 THEN softEdge * 3 ELSE 0
      bg == IF bgData # NoData
            THEN <<RenderItem("image", zIndex, domOrder, "", bgData, FALSE,
                              Geom(config, node, "box", bulletPx, padPx),
                              rotation, NoFill)>>
            ELSE <<>>
      text == IF textPayload
              THEN <<RenderItem("text", zIndex + 1, domOrder, "", NoData,
                                TRUE, Geom(config, node, "box", bulletPx, 0),
                                rotation, NoFill)>>
              ELSE <<>>
      borders == IF hasCompositeBorder
                 THEN createCompositeBorderItems(borderInfo.sides, node,
                        config, zIndex, domOrder, bulletPx)
                 ELSE <<>>
  IN bg \o text \o borders

\* The branch of a node with a solid fill, a border, a shadow or text: the
\* shape (the text merged into it when there is text), then the overlay
\* image of a composite border one zIndex above.
ShapeBranchItems(node, config, zIndex, domOrder, rotation, bulletPx, textPayload, hasCompositeBorder, fill) ==
  LET widthPx == IF node.offsetWidth # 0 THEN node.offsetWidth
                 ELSE node.rect.width
      heightPx == IF node.offsetHeight # 0 THEN node.offsetHeight
                  ELSE node.rect.height
      shapeType == ShapeTypeOf(node.borderRadius, widthPx, heightPx)
      main == IF textPayload
              THEN RenderItem("text", zIndex, domOrder, shapeType, NoData,
                              TRUE, Geom(config, node, "box", bulletPx, 0),
                              rotation, fill)
              ELSE RenderItem("shape", zIndex, domOrder, shapeType, NoData,
                              FALSE, Geom(config, node, "box", bulletPx, 0),
                              rotation, fill)
      overlay == IF hasCompositeBorder
                 THEN <<RenderItem("image", zIndex + 1, domOrder, "",
                                   "borderSVG", FALSE,
                                   Geom(config, node, "box", bulletPx, 0),
                                   rotation, NoFill)>>
                 ELSE <<>>
  IN <<main>> \o overlay

\* The part of createRenderItem after the SVG and IMG branches.
GenericResult(doc, n, config, zIndex, domOrder, rotation) ==
  LET node == doc[n]
      bgColorObj == parseColor(node.backgroundColor)
      isBgClipText == node.backgroundClip = "text"
      hasGradient == /\ ~isBgClipText
                     /\ node.backgroundImage
                          \in {"linear-gradient", "linear-gradient(..)"}
      borderInfo == getBorderInfo(node.border)
      hasUniformBorder == borderInfo.type = "uniform"
      hasCompositeBorder == borderInfo.type = "composite"
      hasShadow == node.boxShadow # <<>>
      softEdge == getSoftEdges(node.filterBlur)
      wrapper == isImageWrapper(doc, n)
      textPayload == isTextContainer(doc, n)
      bulletPx == IF textPayload /\ node.display = "list-item"
                  THEN node.fontSize ELSE 0
      items ==
        IF hasGradient \/ (softEdge # 0 /\ bgColorObj.hex # NoHex /\ ~wrapper)
        THEN GradientBranchItems(node, config, zIndex, domOrder, rotation,
               softEdge, bulletPx, textPayload, hasCompositeBorder,
               borderInfo)
        ELSE IF \/ (bgColorObj.hex # NoHex /\ ~wrapper)
                \/ hasUniformBorder
                \/ hasCompositeBorder
                \/ hasShadow
                \/ textPayload
        THEN ShapeBranchItems(node, config, zIndex, domOrder, rotation,
               bulletPx, textPayload, hasCompositeBorder,
               IF bgColorObj.hex # NoHex /\ ~wrapper THEN bgColorObj.hex
               ELSE NoFill)
        ELSE <<>>
  IN [kind |-> "result", items |-> items, stopRecursion |-> textPayload]

NullResult == [kind |-> "null", items |-> <<>>, stopRecursion |-> FALSE]
ThrowResult == [kind |-> "throw", items |-> <<>>, stopRecursion |-> FALSE]

\* createRenderItem(node, config, domOrder, pptx).  raster is what the
\* rendering backend resolves to for this node: a payload or NoData (null).
createRenderItem(doc, n, config, domOrder, raster) ==
  LET node == doc[n]
  IN IF IsHiddenStyle(node) THEN NullResult
     ELSE IF IsZeroArea(node.rect) THEN NullResult
     ELSE IF getRotationThrows(node.transform) THEN ThrowResult
     ELSE LET zIndex == ResolveZIndex(node)
              rotation == getRotation(node.transform)
          IN IF node.tag = "SVG"
             THEN SvgResult(node, config, zIndex, domOrder, rotation, raster)
             ELSE IF node.tag = "IMG"
             THEN IF ImgThrows(node) THEN ThrowResult
                  ELSE ImgResult(node, config, zIndex, domOrder, rotation,
                                 raster)
             ELSE GenericResult(doc, n, config, zIndex, domOrder, rotation)

\* ------------------------------------------------ index.js: processSlide

\* The LayoutConfig of a slide, from the root's bounding box.  scale, offX
\* and offY are functions of the root's width and height alone; EvalLayout
\* evaluates them.
LayoutConfig(rootRect) ==
  [rootX |-> rootRect.left, rootY |-> rootRect.top,
   contentWidthPx |-> rootRect.width, contentHeightPx |-> rootRect.height]

\* Compare without the zIndex: the DOM order alone.
CompareDomOrderOnly(a, b) == a.domOrder - b.domOrder

\* Compare without the tie-break on the DOM order.
CompareZIndexOnly(a, b) == a.zIndex - b.zIndex

\* The comparator given to renderQueue.sort.
Compare(a, b) ==
  IF a.zIndex # b.zIndex THEN a.zIndex - b.zIndex
  ELSE a.domOrder - b.domOrder

\* Array.prototype.sort is stable: an item goes after every item already
\* placed that does not compare greater.  For a comparator that is a total
\* preorder, as Compare is, every stable sort gives this sequence.
RECURSIVE InsertSorted(_, _)
InsertSorted(sorted, x) ==
  IF sorted = <<>> THEN <<x>>
  ELSE IF Compare(sorted[Len(sorted)], x) <= 0 THEN Append(sorted, x)
  ELSE Append(InsertSorted(SubSeq(sorted, 1, Len(sorted) - 1), x),
              sorted[Len(sorted)])

RECURSIVE SortFrom(_, _)
SortFrom(sorted, rest) ==
  IF rest = <<>> THEN sorted
  ELSE SortFrom(InsertSorted(sorted, Head(rest)), Tail(rest))

SortQueue(queue) == SortFrom(<<>>, queue)

\* Whether createRenderItem reaches one of its two awaits of the rendering
\* backend (svgToPng, getProcessedImage) for this node.
AwaitsRaster(node) ==
  /\ ~IsHiddenStyle(node)
  /\ ~IsZeroArea(node.rect)
  /\ ~getRotationThrows(node.transform)
  /\ node.tag \in {"SVG", "IMG"}
  /\ ~(node.tag = "IMG" /\ ImgThrows(node))

\* What the backend may resolve to: a payload, or null.
RasterOutcomes(node) == IF AwaitsRaster(node) THEN {"png", NoData} ELSE {NoData}

\* -------------------------------------------------------------- the state

VARIABLES
  doc,              \* the document: node records in document order
  elements,         \* the target array of exportToPptx
  pc,               \* "loop", "collect", "done" or "rejected"
  idx,              \* the position of the for-of loop in elements
  slides,           \* the slides added to pptx, with the items written
  warned,           \* positions of elements reported by console.warn
  layoutConfig,     \* processSlide's layoutConfig
  renderQueue,      \* processSlide's renderQueue
  domOrderCounter,  \* processSlide's domOrderCounter
  stack,            \* the pending collect calls, next first
  visitLog,         \* history: the collect calls made, in order
  fileWritten,      \* whether pptx.writeFile has been called
  fileSaved         \* whether the promise of pptx.writeFile has resolved

vars == <<doc, elements, pc, idx, slides, warned, layoutConfig, renderQueue,
          domOrderCounter, stack, visitLog, fileWritten,
          fileSaved>>

\* An element of the target array: a selector string or an element
\* reference; node is what it resolves to, 0 for a selector that matches
\* nothing or for a null reference.
Element(isString, node) == [isString |-> isString, node |-> node]

\* typeof el === "string" ? document.querySelector(el) : el
ResolveRoot(el) == el.node

NoConfig == LayoutConfig(Rect(0, 0, 0, 0))

\* exportToPptx, lines 36-39: the element does not resolve
SkipElement ==
  /\ pc = "loop"
  /\ idx <= Len(elements)
  /\ ResolveRoot(elements[idx]) = 0
  /\ warned' = Append(warned, idx)
  /\ idx' = idx + 1
  /\ UNCHANGED <<doc, elements, pc, slides, layoutConfig, renderQueue,
                 domOrderCounter, stack, visitLog, fileWritten,
                 fileSaved>>

\* A queue kept from the slide before.
InitialQueueKept(queue) == queue

\* The queue and the counter a slide starts with.
InitialQueue(queue) == <<>>
InitialCounter(counter) == 0

\* exportToPptx, lines 41-42, and processSlide up to its call collect(root)
StartSlide ==
  /\ pc = "loop"
  /\ idx <= Len(elements)
  /\ LET root == ResolveRoot(elements[idx])
     IN /\ root # 0
        /\ slides' = Append(slides, [root |-> root, accumulated |-> <<>>,
                                     items |-> <<>>])
        /\ layoutConfig' = LayoutConfig(doc[root].rect)
        /\ renderQueue' = InitialQueue(renderQueue)
        /\ domOrderCounter' = InitialCounter(domOrderCounter)
        /\ stack' = <<root>>
  /\ pc' = "collect"
  /\ UNCHANGED <<doc, elements, idx, warned, visitLog, fileWritten,
                 fileSaved>>

\* What collect does with the children after createRenderItem returned.
NextStack(result, children, rest) ==
  IF result.kind = "result" /\ result.stopRecursion THEN rest
  ELSE children \o rest

\* A counter that moves on only for a node that was not skipped.
CounterAfterUnlessSkipped(counter, result) ==
  IF result.kind = "null" THEN counter ELSE counter + 1

\* The domOrder collect gives the node, and the counter after it.
OrderOf(counter) == counter
CounterAfter(counter, result) == counter + 1

\* One call of collect(node): the order, createRenderItem, the push, and
\* the children queued for the calls that follow.  An exception of
\* createRenderItem is caught nowhere: it rejects collect, processSlide and
\* exportToPptx.
Collect ==
  /\ pc = "collect"
  /\ stack # <<>>
  /\ LET n == Head(stack)
         order == OrderOf(domOrderCounter)
     IN \E raster \in RasterOutcomes(doc[n]) :
          LET result == createRenderItem(doc, n, layoutConfig, order, raster)
          IN /\ domOrderCounter' = CounterAfter(domOrderCounter, result)
             /\ visitLog' = Append(visitLog,
                  [slide |-> Len(slides), node |-> n, order |-> order,
                   raster |-> IF AwaitsRaster(doc[n])
                              THEN (IF raster = NoData THEN "null" ELSE "ok")
                              ELSE "none",
                   kind |-> result.kind])
             /\ IF result.kind = "throw"
                THEN /\ pc' = "rejected"
                     /\ UNCHANGED <<renderQueue, stack>>
                ELSE /\ renderQueue' = renderQueue \o result.items
                     /\ stack' = NextStack(result, Children(doc, n),
                                           Tail(stack))
                     /\ pc' = pc
  /\ UNCHANGED <<doc, elements, idx, slides, warned, layoutConfig,
                 fileWritten, fileSaved>>

\* processSlide after collect(root) resolved: the sort and the calls of
\* addShape, addImage and addText, in queue order; then the next element.
FinishSlide ==
  /\ pc = "collect"
  /\ stack = <<>>
  /\ slides' = [slides EXCEPT ![Len(slides)] =
                  [@ EXCEPT !.accumulated = renderQueue,
                            !.items = SortQueue(renderQueue)]]
  /\ idx' = idx + 1
  /\ pc' = "loop"
  /\ UNCHANGED <<doc, elements, warned, layoutConfig, renderQueue,
                 domOrderCounter, stack, visitLog, fileWritten,
                 fileSaved>>

\* exportToPptx, lines 45-46: the loop is over, writeFile is called and the
\* function returns.
WriteFile ==
  /\ pc = "loop"
  /\ idx > Len(elements)
  /\ fileWritten' = TRUE
  /\ pc' = "done"
  /\ UNCHANGED <<doc, elements, idx, slides, warned, layoutConfig,
                 renderQueue, domOrderCounter, stack, visitLog, fileSaved>>

\* The promise pptx.writeFile returned resolves: the file has been written.
\* exportToPptx neither awaits nor returns that promise, so nothing in
\* exportToPptx waits for this step.
WriteFileResolves ==
  /\ fileWritten
  /\ ~fileSaved
  /\ fileSaved' = TRUE
  /\ UNCHANGED <<doc, elements, pc, idx, slides, warned, layoutConfig,
                 renderQueue, domOrderCounter, stack, visitLog, fileWritten>>

Next ==
  \/ SkipElement
  \/ StartSlide
  \/ Collect
  \/ FinishSlide
  \/ WriteFile
  \/ WriteFileResolves

\* ---------------------------------------------------------- the documents

\* Node kinds: BaseNode with the properties one case needs.
Plain == BaseNode
Solid == [BaseNode EXCEPT !.backgroundColor = Red]
SolidWide == [Solid EXCEPT !.rect = Rect(8, 8, 192, 48), !.offsetWidth = 192]
SolidZ1 == [Solid EXCEPT !.zIndex = "1"]
SolidBorder == [Solid EXCEPT !.border = <<2, 0, 0, 0>>]
Grad == [BaseNode EXCEPT !.backgroundImage = "linear-gradient(..)"]
GradText == [Grad EXCEPT !.ownText = TRUE]
GradTextBorder == [GradText EXCEPT !.border = <<2, 1, 0, 0>>]
Span == [BaseNode EXCEPT !.tag = "SPAN", !.display = "inline",
                         !.ownText = TRUE]
DisplayNone == [Solid EXCEPT !.display = "none"]
VisibilityHidden == [Solid EXCEPT !.visibility = "hidden"]
OpacityZero == [Solid EXCEPT !.opacity = "0"]
ZeroWidth == [Solid EXCEPT !.rect = Rect(0, 0, 0, 48), !.offsetWidth = 0]
ZeroHeight == [Solid EXCEPT !.rect = Rect(0, 0, 96, 0), !.offsetHeight = 0]
NoBox == [Solid EXCEPT !.rect = Rect(0, 0, 0, 0), !.offsetWidth = 0,
                       !.offsetHeight = 0]
Rotated == [Solid EXCEPT !.transform = TransformMatrix(<<0, 1, -1, 0, 0, 0>>)]
MalformedTransform == [Solid EXCEPT !.transform = TransformMalformed]
Svg == [BaseNode EXCEPT !.tag = "SVG", !.offsetWidth = 0, !.offsetHeight = 0]
Img == [BaseNode EXCEPT !.tag = "IMG"]

\* The kinds of the documents that exercise the z-order of the queue, the
\* visit of the nodes, and the batch of slides.
OrderKinds == {Plain, Solid, SolidZ1, Grad, GradText, Span}
VisitKinds == {Solid, DisplayNone, VisibilityHidden, OpacityZero, ZeroWidth,
               ZeroHeight, NoBox, MalformedTransform, Svg, Img}
BatchKinds == {Solid, SolidWide, MalformedTransform}

RECURSIVE AncestorsOrSelf(_, _)
AncestorsOrSelf(parent, j) ==
  IF j = 0 THEN {} ELSE {j} \cup AncestorsOrSelf(parent, parent[j])

\* The parent maps of n nodes numbered in document order: node 1 is a root,
\* and a later node is a root (when the document may hold several) or a
\* child of the node before it or of one of that node's ancestors.
Shapes(n, maxRoots) ==
  {parent \in [1..n -> 0..(n - 1)] :
     /\ parent[1] = 0
     /\ \A j \in 2..n :
          parent[j] \in AncestorsOrSelf(parent, j - 1) \cup {0}
     /\ Cardinality({j \in 1..n : parent[j] = 0}) <= maxRoots}

\* The ancestors of node j of document d.
Ancestors(d, j) ==
  AncestorsOrSelf([k \in 1..Len(d) |-> d[k].parent], d[j].parent)

\* An IMG element has no children, only a slide root may lack a parent
\* element (an IMG that is a direct child of a shadow root), and a node
\* below a display:none node has no box: getBoundingClientRect gives it
\* a rectangle of zeros.
WellFormed(d) ==
  /\ \A j \in 1..Len(d) : d[j].parent # 0 => d[d[j].parent].tag # "IMG"
  /\ \A j \in 1..Len(d) : d[j].parent # 0 => d[j].hasParentElement
  /\ \A j \in 1..Len(d) :
       (\E a \in Ancestors(d, j) : d[a].display = "none")
         => d[j].rect = Rect(0, 0, 0, 0)

\* doc is a document of n nodes of the given kinds, with at most maxRoots
\* roots.
IsDocOf(d, kinds, maxRoots) ==
  \E n \in 1..MaxNodes :
    \E parent \in Shapes(n, maxRoots) :
      \E kind \in [1..n -> kinds] :
        /\ d = [j \in 1..n |-> [kind[j] EXCEPT !.parent = parent[j]]]
        /\ WellFormed(d)

RootsOf(d) == SetToSeq({j \in 1..Len(d) : d[j].parent = 0})

\* A target that is a single element reference (not an array).
SingleTarget(d) == <<Element(FALSE, 1)>>

\* The entries that resolve to nothing: a selector without a match, null.
Unresolvable == {Element(TRUE, 0), Element(FALSE, 0)}

\* The target arrays over a document: its roots, in order, each given by
\* reference or by a selector, with unresolvable entries between them.
RECURSIVE Targets(_, _)
Targets(roots, len) ==
  IF len = 0 THEN (IF roots = <<>> THEN {<<>>} ELSE {})
  ELSE {<<u>> \o t : u \in Unresolvable, t \in Targets(roots, len - 1)}
       \cup
       (IF roots = <<>> THEN {}
        ELSE {<<Element(s, Head(roots))>> \o t :
                s \in BOOLEAN, t \in Targets(Tail(roots), len - 1)})

\* An IMG root without a parent element, alone or before a second root.
ShadowImg == [Img EXCEPT !.hasParentElement = FALSE]

\* The documents and targets of the model: single-root documents of the
\* order kinds and of the visit kinds, single nodes with a composite
\* border, a rotated root, an IMG root in a shadow tree, and batches of
\* several roots.
InitInput ==
  \/ /\ IsDocOf(doc, OrderKinds, 1)
     /\ elements = SingleTarget(doc)
  \/ /\ IsDocOf(doc, VisitKinds, 1)
     /\ elements = SingleTarget(doc)
  \/ /\ doc \in {<<SolidBorder>>, <<GradTextBorder>>, <<Rotated>>,
                 <<ShadowImg>>}
     /\ elements = SingleTarget(doc)
  \/ /\ IsDocOf(doc, BatchKinds, MaxRoots)
     /\ \E len \in 0..MaxRoots : elements \in Targets(RootsOf(doc), len)

Init ==
  /\ InitInput
  /\ pc = "loop"
  /\ idx = 1
  /\ slides = <<>>
  /\ warned = <<>>
  /\ layoutConfig = NoConfig
  /\ renderQueue = <<>>
  /\ domOrderCounter = 0
  /\ stack = <<>>
  /\ visitLog = <<>>
  /\ fileWritten = FALSE
  /\ fileSaved = FALSE

Spec == Init /\ [][Next]_vars

\* ----------------------------------------------------------- properties

\* The collect calls made for slide k, in order.
SlideLog(k) ==
  LET OfSlide(e) == e.slide = k
  IN SelectSeq(visitLog, OfSlide)

\* Slide k has been sorted and handed to the writer.
Finished(k) == k < Len(slides) \/ pc \in {"loop", "done"}

\* The items of slide k: those written, or the queue while it is collected.
ItemsOfSlide(k) == IF Finished(k) THEN slides[k].items ELSE renderQueue

Count(x, s) == Cardinality({i \in 1..Len(s) : s[i] = x})

IsSortedByKey(s) ==
  \A i, j \in 1..Len(s) :
    i < j => \/ s[i].zIndex < s[j].zIndex
             \/ /\ s[i].zIndex = s[j].zIndex
                /\ s[i].domOrder <= s[j].domOrder

\* C1: the sequence handed to the writer holds each accumulated item exactly
\* once and is ordered by zIndex ascending and, among equal zIndex, by
\* domOrder ascending.
C1_SortedPermutation ==
  \A k \in 1..Len(slides) :
    Finished(k) =>
      /\ Len(slides[k].items) = Len(slides[k].accumulated)
      /\ \A x \in Range(slides[k].accumulated) \cup Range(slides[k].items) :
           Count(x, slides[k].items) = Count(x, slides[k].accumulated)
      /\ IsSortedByKey(slides[k].items)

\* A written slide of three items or more whose accumulation order was not
\* the sorted order.
C1_Witness ==
  \E k \in 1..Len(slides) :
    /\ Finished(k)
    /\ Len(slides[k].items) >= 3
    /\ slides[k].items # slides[k].accumulated

\* The node of a visit is skipped by its style or by its box.
SkippedNode(node) ==
  \/ node.display = "none"
  \/ node.visibility = "hidden"
  \/ node.opacity = "0"
  \/ node.rect.width = 0
  \/ node.rect.height = 0

\* C2: a visited node with display:none, visibility:hidden or opacity:0, or
\* with a box of zero width or height, contributes no item to its slide.
C2_SkippedNodeNoItem ==
  \A i \in 1..Len(visitLog) :
    SkippedNode(doc[visitLog[i].node]) =>
      \A x \in Range(ItemsOfSlide(visitLog[i].slide)) :
        x.domOrder # visitLog[i].order

\* Each way of being skipped has been visited in a slide that has items.
C2_Witness ==
  /\ Len(slides) = 1
  /\ Finished(1)
  /\ slides[1].items # <<>>
  /\ \E i, j \in 1..Len(visitLog) :
       /\ doc[visitLog[i].node].opacity = "0"
       /\ doc[visitLog[j].node].rect.width = 0

\* The roots of the target array that resolve, in input order.
RECURSIVE ResolvableRoots(_)
ResolvableRoots(els) ==
  IF els = <<>> THEN <<>>
  ELSE (IF ResolveRoot(Head(els)) # 0 THEN <<ResolveRoot(Head(els))>>
        ELSE <<>>) \o ResolvableRoots(Tail(els))

\* C3: when exportToPptx has ended, the slides added are exactly one per
\* resolvable root, in input order; an unresolvable root adds no slide and
\* the roots after it are still processed.
C3_OneSlidePerResolvableRoot ==
  pc \in {"done", "rejected"} =>
    [k \in 1..Len(slides) |-> slides[k].root] = ResolvableRoots(elements)

\* C4: processing a slide never throws: a failure at one node is contained
\* at that node and the traversal goes on to a sorted queue.
C4_NeverThrows == pc # "rejected"

\* The visit order of a slide when every rasterization succeeds: the nodes
\* in the order collect reaches them, up to a node that throws.
RECURSIVE RefVisitFrom(_, _, _)
RefVisitFrom(d, config, pending) ==
  IF pending = <<>> THEN <<>>
  ELSE LET n == Head(pending)
           result == createRenderItem(d, n, config, 0, "png")
       IN IF result.kind = "throw" THEN <<n>>
          ELSE <<n>> \o RefVisitFrom(d, config,
                          NextStack(result, Children(d, n), Tail(pending)))

RefVisit(d, root) == RefVisitFrom(d, LayoutConfig(d[root].rect), <<root>>)

\* C5: a rasterization that resolves to null leaves no item of the node,
\* consumes the node's domOrder, does not abort the slide, and every later
\* node is visited with the domOrder it has when the rasterization succeeds.
C5_NullRasterKeepsOrder ==
  \A k \in 1..Len(slides) :
    LET log == SlideLog(k)
        ref == RefVisit(doc, slides[k].root)
    IN (\E i \in 1..Len(log) : log[i].raster = "null") =>
         /\ \A i \in 1..Len(log) :
              log[i].raster = "null" =>
                /\ \A x \in Range(ItemsOfSlide(k)) : x.domOrder # log[i].order
                /\ log[i].kind # "throw"
                /\ i = Len(log) /\ ~Finished(k) =>
                     domOrderCounter = log[i].order + 1
         /\ Len(log) <= Len(ref)
         /\ \A j \in 1..Len(log) :
              log[j].node = ref[j] /\ log[j].order = j - 1
         /\ Finished(k) => Len(log) = Len(ref)

\* A written slide in which a rasterization resolved to null at a node that
\* is followed by a node that left an item.
C5_Witness ==
  \E k \in 1..Len(slides) :
    LET log == SlideLog(k)
    IN /\ Finished(k)
       /\ \E i, j \in 1..Len(log) :
            /\ i < j
            /\ log[i].raster = "null"
            /\ \E x \in Range(slides[k].items) : x.domOrder = log[j].order

\* C8: the domOrder values of a slide are 0, 1, 2, ... in the order of the
\* visits, which is document order: no two visited nodes share one, an
\* ancestor's is smaller than its descendants', and a node that leaves no
\* item still takes its value.
C8_DomOrderCounts ==
  \A k \in 1..Len(slides) :
    LET log == SlideLog(k)
    IN /\ \A i \in 1..Len(log) : log[i].order = i - 1
       /\ \A i, j \in 1..Len(log) :
            /\ i # j => log[i].node # log[j].node
            /\ i < j => log[i].node < log[j].node
            /\ log[j].node \in Descendants(doc, log[i].node) =>
                 log[i].order < log[j].order
       /\ ~Finished(k) /\ pc = "collect" => domOrderCounter = Len(log)

\* A written slide in which a skipped node, which left no item, was followed
\* by a descendant that left one.
C8_Witness ==
  \E k \in 1..Len(slides) :
    LET log == SlideLog(k)
    IN /\ Finished(k)
       /\ \E i, j \in 1..Len(log) :
            /\ log[i].kind = "null"
            /\ log[j].node \in Descendants(doc, log[i].node)
            /\ \E x \in Range(slides[k].items) : x.domOrder = log[j].order

SameKey(a, b) == a.zIndex = b.zIndex /\ a.domOrder = b.domOrder

\* The accumulation list in the order given by the permutation f.
Permuted(acc, f) == [i \in 1..Len(acc) |-> acc[f[i]]]

\* f keeps the items of equal (zIndex, domOrder) in the order they have in
\* the accumulation list.
KeepsTies(acc, f) ==
  \A i, j \in 1..Len(acc) :
    i < j /\ SameKey(acc[f[i]], acc[f[j]]) => f[i] < f[j]

\* C6, as claimed: every permutation of the accumulation list sorts to the
\* sequence handed to the writer, also where one node's items have equal
\* zIndex and equal domOrder.
C6_AnyPermutationSameQueue ==
  \A k \in 1..Len(slides) :
    Finished(k) /\ Len(slides[k].accumulated) <= MaxPermLen =>
      \A f \in Permutations(1..Len(slides[k].accumulated)) :
        SortQueue(Permuted(slides[k].accumulated, f)) = slides[k].items

\* C6, amended: every permutation of the accumulation list that keeps the
\* items of equal (zIndex, domOrder) in their relative order sorts to the
\* sequence handed to the writer.
C6_TieKeepingPermutationSameQueue ==
  \A k \in 1..Len(slides) :
    Finished(k) /\ Len(slides[k].accumulated) <= MaxPermLen =>
      \A f \in Permutations(1..Len(slides[k].accumulated)) :
        KeepsTies(slides[k].accumulated, f) =>
          SortQueue(Permuted(slides[k].accumulated, f)) = slides[k].items

\* A written slide with two items of equal key, and a tie-keeping
\* permutation of its accumulation list that is not the identity.
C6_Witness ==
  \E k \in 1..Len(slides) :
    LET acc == slides[k].accumulated
    IN /\ Finished(k)
       /\ Len(acc) <= MaxPermLen
       /\ \E i, j \in 1..Len(acc) : i # j /\ SameKey(acc[i], acc[j])
       /\ \E f \in Permutations(1..Len(acc)) :
            /\ KeepsTies(acc, f)
            /\ Permuted(acc, f) # acc

\* The positions in s of the items with the given domOrder.
PositionsOf(s, order) == {i \in 1..Len(s) : s[i].domOrder = order}

\* C7: for two visited nodes A before B in document order with equal
\* resolved z-index, every item of A precedes every item of B in the queue
\* handed to the writer.
C7_DocumentOrderPaints ==
  \A k \in 1..Len(slides) :
    Finished(k) =>
      LET log == SlideLog(k)
      IN \A a, b \in 1..Len(log) :
           /\ log[a].node < log[b].node
           /\ ResolveZIndex(doc[log[a].node]) = ResolveZIndex(doc[log[b].node])
           => \A i \in PositionsOf(slides[k].items, log[a].order) :
                \A j \in PositionsOf(slides[k].items, log[b].order) : i < j

\* The items createRenderItem gives for the visit e under the LayoutConfig
\* of the root of slide k.
ItemsOfVisit(k, e) ==
  createRenderItem(doc, e.node, LayoutConfig(doc[slides[k].root].rect),
                   e.order, IF e.raster = "ok" THEN "png" ELSE NoData).items

\* C9, in each state: the items of slide k come from visits of nodes of root
\* k's subtree and are computed with the LayoutConfig of root k, and a slide
\* starts with an empty queue and a counter of zero.
C9_SlideState ==
  /\ \A k \in 1..Len(slides) :
       /\ \A x \in Range(ItemsOfSlide(k)) :
            /\ x.geom.config = LayoutConfig(doc[slides[k].root].rect)
            /\ \E i \in 1..Len(SlideLog(k)) :
                 /\ SlideLog(k)[i].node \in Subtree(doc, slides[k].root)
                 /\ x \in Range(ItemsOfVisit(k, SlideLog(k)[i]))
       /\ Len(ItemsOfSlide(k)) =
            SeqSum([i \in 1..Len(SlideLog(k)) |->
                      Len(ItemsOfVisit(k, SlideLog(k)[i]))])
  /\ pc = "collect" /\ SlideLog(Len(slides)) = <<>> =>
       /\ renderQueue = <<>>
       /\ domOrderCounter = 0
       /\ layoutConfig = LayoutConfig(doc[slides[Len(slides)].root].rect)

\* C9, in each step: the slides written before stay as they are.
C9_SlideStep ==
  \A k \in 1..Len(slides) : Finished(k) => slides'[k] = slides[k]

\* C9: slide k receives only items of root k's subtree, each computed with
\* root k's LayoutConfig; the queue and the counter start empty and zero for
\* every slide; processing a slide changes nothing of the slides before it.
C9_SlidesIndependent == [](C9_SlideState) /\ [][C9_SlideStep]_vars

\* Two written slides of roots with different boxes, each with an item.
C9_Witness ==
  /\ Len(slides) = 2
  /\ Finished(2)
  /\ slides[1].items # <<>>
  /\ slides[2].items # <<>>
  /\ doc[slides[1].root].rect # doc[slides[2].root].rect

\* ------------------------------------------- Number arithmetic (doubles)

\* The arithmetic of index.js is that of IEEE-754 doubles: every *, /, +
\* and - gives the exact result rounded to Precision significant bits, ties
\* to even.  A double is sign * m * 2^e with m a natural number of
\* Precision bits (or 0), kept as a little-endian sequence of limbs.  The
\* operations are functions, applied to values.
Precision == 53
LimbBits == 15
LimbBase == 2^LimbBits

Limbs == Seq(Nat)
Doubles == [sign : {-1, 1}, m : Limbs, e : Int]

Limb(a, i) == IF i >= 1 /\ i <= Len(a) THEN a[i] ELSE 0

\* a without its leading zero limbs
BigNorm ==
  [a \in Limbs |->
     LET used == {i \in 1..Len(a) : a[i] # 0}
     IN IF used = {} THEN <<>>
        ELSE SubSeq(a, 1, CHOOSE i \in used : \A j \in used : j <= i)]

\* n < LimbBase^3 as limbs
BigOf ==
  [n \in Nat |->
     BigNorm[<<n % LimbBase, (n \div LimbBase) % LimbBase,
               n \div (LimbBase * LimbBase)>>]]

\* a + b: limb i takes a carry when a lower limb sum overflows and every
\* limb sum between the two is LimbBase - 1.
BigAdd ==
  [a \in Limbs, b \in Limbs |->
     LET n == IF Len(a) > Len(b) THEN Len(a) ELSE Len(b)
         sum == [i \in 1..(n + 1) |-> Limb(a, i) + Limb(b, i)]
         carry == [i \in 1..(n + 1) |->
                     IF \E j \in 1..(i - 1) :
                          /\ sum[j] >= LimbBase
                          /\ \A k \in (j + 1)..(i - 1) :
                               sum[k] = LimbBase - 1
                     THEN 1 ELSE 0]
     IN BigNorm[[i \in 1..(n + 1) |-> (sum[i] + carry[i]) % LimbBase]]]

\* a - b for a >= b: limb i lends when a lower limb difference is negative
\* and every limb difference between the two is 0.
BigSub ==
  [a \in Limbs, b \in Limbs |->
     LET diff == [i \in 1..Len(a) |-> a[i] - Limb(b, i)]
         borrow == [i \in 1..Len(a) |->
                      IF \E j \in 1..(i - 1) :
                           /\ diff[j] < 0
                           /\ \A k \in (j + 1)..(i - 1) : diff[k] = 0
                      THEN 1 ELSE 0]
     IN BigNorm[[i \in 1..Len(a) |->
                   (diff[i] - borrow[i] + LimbBase) % LimbBase]]]

\* -1, 0 or 1 as a < b, a = b or a > b
BigCmp ==
  [a \in Limbs, b \in Limbs |->
     IF Len(a) < Len(b) THEN -1
     ELSE IF Len(a) > Len(b) THEN 1
     ELSE LET differ == {i \in 1..Len(a) : a[i] # b[i]}
          IN IF differ = {} THEN 0
             ELSE IF LET top == CHOOSE i \in differ :
                                  \A j \in differ : j <= i
                     IN a[top] < b[top]
             THEN -1 ELSE 1]

ZeroLimbs(n) == [i \in 1..n |-> 0]

\* a * k for k < LimbBase
BigMulSmall ==
  [a \in Limbs, k \in Nat |->
     BigAdd[BigNorm[[i \in 1..Len(a) |-> (a[i] * k) % LimbBase]],
            BigNorm[<<0>> \o [i \in 1..Len(a) |->
                                (a[i] * k) \div LimbBase]]]]

\* a * 2^n
BigShl ==
  [a \in Limbs, n \in Nat |->
     IF a = <<>> THEN a
     ELSE ZeroLimbs(n \div LimbBits) \o BigMulSmall[a, 2^(n % LimbBits)]]

\* a times the limbs b[j..Len(b)], as a multiple of LimbBase^(j - 1)
RECURSIVE BigMulFrom(_, _, _)
BigMulFrom(a, b, j) ==
  IF j > Len(b) THEN <<>>
  ELSE BigAdd[BigNorm[ZeroLimbs(j - 1) \o BigMulSmall[a, b[j]]],
              BigMulFrom(a, b, j + 1)]

BigMul == [a \in Limbs, b \in Limbs |-> BigMulFrom(a, b, 1)]

\* a \div 2^n for n < LimbBits
BigShrSmall ==
  [a \in Limbs, n \in Nat |->
     BigNorm[[i \in 1..Len(a) |->
                (a[i] \div 2^n)
                + (Limb(a, i + 1) % 2^n) * 2^(LimbBits - n)]]]

\* a \div 2^n
BigShr ==
  [a \in Limbs, n \in Nat |->
     BigShrSmall[SubSeq(a, (n \div LimbBits) + 1, Len(a)), n % LimbBits]]

\* a % 2^n
BigLow ==
  [a \in Limbs, n \in Nat |->
     BigNorm[[i \in 1..((n \div LimbBits) + 1) |->
                IF i <= n \div LimbBits THEN Limb(a, i)
                ELSE Limb(a, i) % 2^(n % LimbBits)]]]

\* The number of bits of k < LimbBase
BitLenSmall(k) ==
  CHOOSE bits \in 0..LimbBits :
    k < 2^bits /\ (bits = 0 \/ k >= 2^(bits - 1))

BigBitLen ==
  [a \in Limbs |->
     IF a = <<>> THEN 0
     ELSE LimbBits * (Len(a) - 1) + BitLenSmall(a[Len(a)])]

BigIsOdd(a) == a # <<>> /\ a[1] % 2 = 1

\* The largest digit with digit * den <= cur, at or below the estimate.
RECURSIVE BigDigitFrom(_, _, _)
BigDigitFrom(cur, den, estimate) ==
  IF BigCmp[BigMulSmall[den, estimate], cur] <= 0 THEN estimate
  ELSE BigDigitFrom(cur, den, estimate - 1)

\* The quotient of cur by den, for cur < LimbBase * den and a den whose
\* top limb is at least LimbBase / 2: the two top limbs of cur divided by
\* the top limb of den are at most two above it.
BigDigit ==
  [cur \in Limbs, den \in Limbs |->
     LET n == Len(den)
         estimate == (Limb(cur, n + 1) * LimbBase + Limb(cur, n)) \div den[n]
     IN BigDigitFrom(cur, den, IF estimate > LimbBase - 1 THEN LimbBase - 1
                               ELSE estimate)]

\* One step of long division: the next limb of the dividend joins the
\* remainder, and the quotient gains a digit below the ones it has.
BigDivStep ==
  [q \in Limbs, r \in Limbs, limb \in Nat, den \in Limbs |->
     [q |-> <<BigDigit[BigNorm[<<limb>> \o r], den]>> \o q,
      r |-> BigSub[BigNorm[<<limb>> \o r],
                   BigMulSmall[den, BigDigit[BigNorm[<<limb>> \o r], den]]]]]

\* The quotient and remainder of num by den # 0, both scaled first to
\* bring the top limb of den to LimbBase / 2 or above.  The top limbs of
\* num, one fewer than den has, are below den and start the remainder;
\* Steps[k] is the long division after k digits.
BigDivModScaled ==
  [n \in Limbs, d \in Limbs |->
     LET digits == IF Len(n) < Len(d) THEN 0 ELSE Len(n) - Len(d) + 1
         Steps[k \in 0..digits] ==
           IF k = 0 THEN [q |-> <<>>, r |-> SubSeq(n, digits + 1, Len(n))]
           ELSE LET acc == Steps[k - 1]
                IN BigDivStep[acc.q, acc.r, n[digits - k + 1], d]
     IN Steps[digits]]

BigDivMod ==
  [num \in Limbs, den \in Limbs |->
     LET by == LimbBits - BitLenSmall(den[Len(den)])
         res == BigDivModScaled[BigShl[num, by], BigShl[den, by]]
     IN [q |-> BigNorm[res.q], r |-> BigShrSmall[res.r, by]]]

Double(sign, m, e) == [sign |-> sign, m |-> m, e |-> e]

Zero == Double(1, <<>>, 0)

\* sign * q * 2^e moved to the nearest double, for q of Precision bits and
\* a dropped fraction below (half < 0), at (half = 0) or above (half > 0)
\* one half: ties go to the even q.
Nearest ==
  [sign \in {-1, 1}, q \in Limbs, half \in Int, e \in Int |->
     LET up == half > 0 \/ (half = 0 /\ BigIsOdd(q))
         rounded == IF up THEN BigAdd[q, <<1>>] ELSE q
     IN IF BigBitLen[rounded] > Precision
        THEN Double(sign, BigShrSmall[rounded, 1], e + 1)
        ELSE Double(sign, rounded, e)]

\* sign * num * 2^e rounded to a double
RoundInt ==
  [sign \in {-1, 1}, num \in Limbs, e \in Int |->
     LET drop == BigBitLen[num] - Precision
     IN IF num = <<>> THEN Zero
        ELSE IF drop <= 0
        THEN Double(sign, BigShl[num, 0 - drop], e + drop)
        ELSE Nearest[sign, BigShr[num, drop],
                     BigCmp[BigShl[BigLow[num, drop], 1],
                            BigShl[<<1>>, drop]],
                     e + drop]]

\* The quotient of num by den with the remainder compared with one half:
\* sign * (num / den) * 2^e rounded to a double.
RoundDivMod ==
  [sign \in {-1, 1}, num \in Limbs, den \in Limbs, e \in Int |->
     LET qr == BigDivMod[num, den]
     IN Nearest[sign, qr.q, BigCmp[BigShl[qr.r, 1], den], e]]

\* sign * (num / den) * 2^e rounded to a double, for num # 0 and den # 0:
\* the quotient is taken after a shift that gives it Precision bits.
RoundQuotient ==
  [sign \in {-1, 1}, num \in Limbs, den \in Limbs, e \in Int |->
     LET guess == BigBitLen[num] - BigBitLen[den] - Precision
         ScaledNum(by) == IF by < 0 THEN BigShl[num, 0 - by] ELSE num
         ScaledDen(by) == IF by > 0 THEN BigShl[den, by] ELSE den
         tooBig == BigCmp[ScaledNum(guess),
                          BigShl[ScaledDen(guess), Precision]] >= 0
         shift == IF tooBig THEN guess + 1 ELSE guess
     IN RoundDivMod[sign, ScaledNum(shift), ScaledDen(shift), e + shift]]

DoubleOfInt ==
  [n \in Int |->
     IF n < 0 THEN RoundInt[-1, BigOf[0 - n], 0] ELSE RoundInt[1, BigOf[n], 0]]

FMul ==
  [a \in Doubles, b \in Doubles |->
     IF a.m = <<>> \/ b.m = <<>> THEN Zero
     ELSE RoundInt[a.sign * b.sign, BigMul[a.m, b.m], a.e + b.e]]

\* a / b for b # 0
FDiv ==
  [a \in Doubles, b \in Doubles |->
     IF a.m = <<>> THEN Zero
     ELSE RoundQuotient[a.sign * b.sign, a.m, b.m, a.e - b.e]]

\* a + b, exactly: sign * m * 2^e with m of any length
ExactAdd ==
  [a \in Doubles, b \in Doubles |->
     LET e == IF a.e < b.e THEN a.e ELSE b.e
         c == BigCmp[BigShl[a.m, a.e - e], BigShl[b.m, b.e - e]]
     IN IF a.m = <<>> THEN b
        ELSE IF b.m = <<>> THEN a
        ELSE IF a.sign = b.sign
        THEN Double(a.sign, BigAdd[BigShl[a.m, a.e - e],
                                   BigShl[b.m, b.e - e]], e)
        ELSE IF c = 0 THEN Zero
        ELSE IF c > 0
        THEN Double(a.sign, BigSub[BigShl[a.m, a.e - e],
                                   BigShl[b.m, b.e - e]], e)
        ELSE Double(b.sign, BigSub[BigShl[b.m, b.e - e],
                                   BigShl[a.m, a.e - e]], e)]

FNeg ==
  [a \in Doubles |->
     IF a.m = <<>> THEN a ELSE Double(0 - a.sign, a.m, a.e)]

ExactSub == [a \in Doubles, b \in Doubles |-> ExactAdd[a, FNeg[b]]]

RoundExact == [x \in Doubles |-> RoundInt[x.sign, x.m, x.e]]

FAdd == [a \in Doubles, b \in Doubles |-> RoundExact[ExactAdd[a, b]]]
FSub == [a \in Doubles, b \in Doubles |-> RoundExact[ExactSub[a, b]]]

\* -1, 0 or 1 as a < b, a = b or a > b; a and b exact values
ExactCmp ==
  [a \in Doubles, b \in Doubles |->
     IF ExactSub[a, b].m = <<>> THEN 0 ELSE ExactSub[a, b].sign]

\* Math.min
FMin == [a \in Doubles, b \in Doubles |-> IF ExactCmp[a, b] <= 0 THEN a ELSE b]

\* ------------------------------------------ index.js: geometry, evaluated

PX_TO_INCH == FDiv[DoubleOfInt[1], DoubleOfInt[PPI]]

\* The literal 5.625
CanvasHeight ==
  FDiv[DoubleOfInt[PPTX_HEIGHT_IN[1]], DoubleOfInt[PPTX_HEIGHT_IN[2]]]
CanvasWidth == DoubleOfInt[PPTX_WIDTH_IN]

\* Math.max in place of Math.min.
ScaleOfMax(byWidth, byHeight) ==
  IF ExactCmp[byWidth, byHeight] >= 0 THEN byWidth ELSE byHeight

\* The scale that fits the content in the canvas.
ScaleOf(byWidth, byHeight) == FMin[byWidth, byHeight]

\* processSlide's layoutConfig as numbers, from the record LayoutConfig
\* keeps of the root's bounding box.
EvalLayout(config) ==
  LET contentWidthIn == FMul[DoubleOfInt[config.contentWidthPx], PX_TO_INCH]
      contentHeightIn == FMul[DoubleOfInt[config.contentHeightPx], PX_TO_INCH]
      scale == ScaleOf(FDiv[CanvasWidth, contentWidthIn],
                       FDiv[CanvasHeight, contentHeightIn])
  IN [rootX |-> DoubleOfInt[config.rootX],
      rootY |-> DoubleOfInt[config.rootY],
      scale |-> scale,
      offX |-> FDiv[FSub[CanvasWidth, FMul[contentWidthIn, scale]],
                    DoubleOfInt[2]],
      offY |-> FDiv[FSub[CanvasHeight, FMul[contentHeightIn, scale]],
                    DoubleOfInt[2]]]

\* createRenderItem's x, y, w and h of a node before any branch changes
\* them, from the evaluated layoutConfig and the record Geom keeps.
EvalGeom(config, geom) ==
  LET two == DoubleOfInt[2]
      unrotatedW == FMul[FMul[DoubleOfInt[geom.widthPx], PX_TO_INCH],
                         config.scale]
      unrotatedH == FMul[FMul[DoubleOfInt[geom.heightPx], PX_TO_INCH],
                         config.scale]
      centerX == FAdd[DoubleOfInt[geom.rect.left],
                      FDiv[DoubleOfInt[geom.rect.width], two]]
      centerY == FAdd[DoubleOfInt[geom.rect.top],
                      FDiv[DoubleOfInt[geom.rect.height], two]]
  IN [x |-> FSub[FAdd[config.offX,
                      FMul[FMul[FSub[centerX, config.rootX], PX_TO_INCH],
                           config.scale]],
                 FDiv[unrotatedW, two]],
      y |-> FSub[FAdd[config.offY,
                      FMul[FMul[FSub[centerY, config.rootY], PX_TO_INCH],
                           config.scale]],
                 FDiv[unrotatedH, two]],
      w |-> unrotatedW,
      h |-> unrotatedH]

\* ------------------------------------------------ the geometry of a root

\* processSlide and createRenderItem on one root, with the numbers
\* evaluated: layoutConfig holds the evaluated LayoutConfig and renderQueue
\* the evaluated geometry of the root's item.  The root is unrotated and
\* its layout box is its bounding box.
RootWidths == {1, 7, 431, 960, 1600, 1920}
RootHeights == {1, 3, 53, 106, 540, 1080}
RootOrigins == {<<0, 0>>, <<8, 8>>, <<-5, 20>>}

RootNode(origin, width, height) ==
  [BaseNode EXCEPT !.rect = Rect(origin[1], origin[2], width, height),
                   !.offsetWidth = width, !.offsetHeight = height]

GeomInit ==
  /\ \E origin \in RootOrigins, width \in RootWidths, height \in RootHeights :
       doc = <<RootNode(origin, width, height)>>
  /\ elements = <<Element(FALSE, 1)>>
  /\ pc = "loop"
  /\ idx = 1
  /\ slides = <<>>
  /\ warned = <<>>
  /\ layoutConfig = NoConfig
  /\ renderQueue = <<>>
  /\ domOrderCounter = 0
  /\ stack = <<>>
  /\ visitLog = <<>>
  /\ fileWritten = FALSE
  /\ fileSaved = FALSE

\* processSlide up to the first collect call
GeomStartSlide ==
  /\ pc = "loop"
  /\ layoutConfig' = EvalLayout(LayoutConfig(doc[1].rect))
  /\ pc' = "collect"
  /\ UNCHANGED <<doc, elements, idx, slides, warned, renderQueue,
                 domOrderCounter, stack, visitLog, fileWritten,
                 fileSaved>>

\* createRenderItem on the root, up to the geometry of its item
GeomCreateRenderItem ==
  /\ pc = "collect"
  /\ renderQueue' =
       <<EvalGeom(layoutConfig,
                  Geom(LayoutConfig(doc[1].rect), doc[1], "box", 0, 0))>>
  /\ domOrderCounter' = domOrderCounter + 1
  /\ pc' = "done"
  /\ UNCHANGED <<doc, elements, idx, slides, warned, layoutConfig, stack,
                 visitLog, fileWritten, fileSaved>>

GeomNext == GeomStartSlide \/ GeomCreateRenderItem

GeomSpec == GeomInit /\ [][GeomNext]_vars

\* The geometry of the root's item, once computed.
RootGeometryDone == pc = "done" /\ Len(renderQueue) = 1 /\ slides = <<>>

\* 2^-40 inch
Tolerance == Double(1, <<1>>, 0 - 40)

\* a <= b + tolerance, a and b exact values
LeqWithin(a, b, tolerance) == ExactCmp[a, ExactAdd[b, tolerance]] <= 0

\* |a - b| <= tolerance
EqWithin(a, b, tolerance) ==
  LeqWithin(a, b, tolerance) /\ LeqWithin(b, a, tolerance)

\* The root's item is inside the canvas, centred and fills one dimension,
\* each relation to within the tolerance.
RootGeometryFits(g, config, tolerance) ==
  LET right == ExactAdd[g.x, g.w]
      bottom == ExactAdd[g.y, g.h]
  IN /\ LeqWithin(Zero, g.x, tolerance)
     /\ LeqWithin(Zero, g.y, tolerance)
     /\ LeqWithin(right, CanvasWidth, tolerance)
     /\ LeqWithin(bottom, CanvasHeight, tolerance)
     /\ EqWithin(g.x, ExactSub[CanvasWidth, right], tolerance)
     /\ EqWithin(g.y, ExactSub[CanvasHeight, bottom], tolerance)
     /\ EqWithin(g.x, config.offX, tolerance)
     /\ EqWithin(g.y, config.offY, tolerance)
     /\ \/ EqWithin(g.w, CanvasWidth, tolerance)
        \/ EqWithin(g.h, CanvasHeight, tolerance)

TextDiv == [BaseNode EXCEPT !.ownText = TRUE]
\* <span> with a background colour of its own, and with a border of its own
Badge == [Span EXCEPT !.backgroundColor = Red]
OutlinedSpan == [Span EXCEPT !.border = <<1, 1, 1, 1>>]

\* The documents of one root of rootKinds with zero, one or two children of
\* childKinds.
ParentWith(rootKinds, childKinds) ==
  {<<r>> : r \in rootKinds}
  \cup {<<r, [c EXCEPT !.parent = 1]>> : r \in rootKinds, c \in childKinds}
  \cup {<<r, [c EXCEPT !.parent = 1], [d EXCEPT !.parent = 1]>> :
          r \in rootKinds, c \in childKinds, d \in childKinds}

\* Text containers and blocks with inline children, styled or not.
InlineDocs == ParentWith({TextDiv, Plain}, {Span, Badge, OutlinedSpan, Solid})

\* Single nodes with a composite border: without a background, with a
\* solid fill and with a gradient, with square and with rounded corners.
CompositeBorders == {<<2, 0, 0, 0>>, <<2, 1, 0, 3>>, <<1, 2, 3, 4>>}
BorderDocs ==
  {<<[base EXCEPT !.border = border, !.borderRadius = radius]>> :
     base \in {Plain, Solid, Grad, GradText}, border \in CompositeBorders,
     radius \in {0, 8}}

\* A node with a blurred solid fill, a node with a solid fill and a
\* uniform border, and an IMG smaller than the nodes.
Blurred == [Solid EXCEPT !.filterBlur = 4]
SolidFramed == [Solid EXCEPT !.border = <<1, 1, 1, 1>>]
SmallImg == [Img EXCEPT !.rect = Rect(0, 0, 10, 10), !.offsetWidth = 10,
                        !.offsetHeight = 10]

\* Nodes with IMG children that cover them, or do not.
WrapperDocs ==
  ParentWith({Solid, SolidFramed, Grad, Blurred}, {Img, SmallImg})

\* The node paints a background or a border of its own.
HasOwnBackgroundOrBorder(node) ==
  \/ parseColor(node.backgroundColor).hex # NoHex
  \/ /\ \E i \in 1..4 : node.border[i] > 0
     /\ parseColor(node.borderColor).hex # NoHex

\* The element children of n that paint a background or border of their own
StyledChildren(d, n) ==
  {c \in Range(Children(d, n)) : HasOwnBackgroundOrBorder(d[c])}

\* The visit of node c in slide k has left an item.
HasOwnItem(k, c) ==
  \E i \in 1..Len(SlideLog(k)) :
    /\ SlideLog(k)[i].node = c
    /\ \E x \in Range(ItemsOfSlide(k)) : x.domOrder = SlideLog(k)[i].order

\* C11: a visited node with an element child that carries a visible
\* background or border of its own is not a text container, and in the
\* written slide each such child has been visited and has an item of its
\* own.
C11_StyledChildNotFlattened ==
  \A i \in 1..Len(visitLog) :
    LET n == visitLog[i].node
        k == visitLog[i].slide
    IN StyledChildren(doc, n) # {} =>
         /\ ~isTextContainer(doc, n)
         /\ Finished(k) => \A c \in StyledChildren(doc, n) : HasOwnItem(k, c)

\* ------------------------------------------ index.js: the text runs

\* Strings are sequences of characters: a space, a line feed (for \n, \r
\* and \t), and letters.
LineBreaks == {"\n"}
WhiteSpace == {" ", "\n"}

\* The length of the longest prefix of s made of characters of class.
RECURSIVE PrefixLen(_, _)
PrefixLen(s, class) ==
  IF s = <<>> \/ Head(s) \notin class THEN 0
  ELSE 1 + PrefixLen(Tail(s), class)

\* s.replace(/[class]{min,}/g, " ")
RECURSIVE ReplaceRuns(_, _, _)
ReplaceRuns(s, class, min) ==
  IF s = <<>> THEN <<>>
  ELSE LET k == PrefixLen(s, class)
       IN IF k >= min /\ k > 0
          THEN <<" ">> \o ReplaceRuns(SubSeq(s, k + 1, Len(s)), class, min)
          ELSE IF k > 0
          THEN SubSeq(s, 1, k)
               \o ReplaceRuns(SubSeq(s, k + 1, Len(s)), class, min)
          ELSE <<Head(s)>> \o ReplaceRuns(Tail(s), class, min)

Reverse(s) == [i \in 1..Len(s) |-> s[Len(s) + 1 - i]]

trimStart(s) == SubSeq(s, PrefixLen(s, WhiteSpace) + 1, Len(s))
trimEnd(s) == Reverse(trimStart(Reverse(s)))

toUpperCase(s) ==
  [i \in 1..Len(s) |-> CASE s[i] = "a" -> "A" [] s[i] = "b" -> "B"
                         [] OTHER -> s[i]]
toLowerCase(s) ==
  [i \in 1..Len(s) |-> CASE s[i] = "A" -> "a" [] s[i] = "B" -> "b"
                         [] OTHER -> s[i]]

\* A child node: a text node (nodeType 3) with its nodeValue or an element
\* (nodeType 1) with its textContent and its own text-transform.
ChildNode(nodeType, text, textTransform) ==
  [nodeType |-> nodeType, text |-> text, textTransform |-> textTransform]

\* The text container, by what the assembler reads of it.
TextNode(display, textTransform, childNodes) ==
  [display |-> display, textTransform |-> textTransform,
   childNodes |-> childNodes]

\* The text of the run of the child at index (from 0), before the test of
\* its length.
RunText(node, index) ==
  LET child == node.childNodes[index + 1]
      nodeStyle == IF child.nodeType = 1 THEN child ELSE node
      collapsed == ReplaceRuns(ReplaceRuns(child.text, LineBreaks, 1),
                               WhiteSpace, 2)
      started == IF index = 0 THEN trimStart(collapsed) ELSE collapsed
      ended == IF index = Len(node.childNodes) - 1 THEN trimEnd(started)
               ELSE started
      upper == IF nodeStyle.textTransform = "uppercase"
               THEN toUpperCase(ended) ELSE ended
  IN IF nodeStyle.textTransform = "lowercase" THEN toLowerCase(upper)
     ELSE upper

\* Whether the run of the child at index is pushed.
KeepsRun(node, index) == Len(RunText(node, index)) > 0

\* textParts after the forEach over node.childNodes: the bullet of a list
\* item, then the runs kept; index is the child a run was made from (-1
\* for the bullet).
TextParts(node) ==
  LET isList == node.display = "list-item"
      bullet == IF isList THEN <<[text |-> <<"*", " ">>, index |-> -1]>>
                ELSE <<>>
      kept == SetToSeq({i \in 0..(Len(node.childNodes) - 1) :
                          KeepsRun(node, i)})
  IN bullet \o [j \in 1..Len(kept) |->
                  [text |-> RunText(node, kept[j]), index |-> kept[j]]]

\* Most child nodes of a text container.
MaxChildNodes == 3

ChildTexts ==
  {<<>>, <<" ">>, <<"\n", " ">>, <<"a">>, <<" ", "a">>, <<"a", " ">>,
   <<" ", "a", " ">>, <<"a", " ", "\n", "B">>}

ChildKinds ==
  {ChildNode(3, t, "none") : t \in ChildTexts}
  \cup {ChildNode(1, <<" ", "a", " ">>, tt) : tt \in {"none", "uppercase"}}

\* node.textContent.trim().length > 0
HasVisibleText(childNodes) ==
  \E i \in 1..Len(childNodes) : trimStart(childNodes[i].text) # <<>>

\* One text container, its runs assembled.
TextInit ==
  /\ \E n \in 1..MaxChildNodes :
       \E childNodes \in [1..n -> ChildKinds] :
         \E display \in {"block", "list-item"} :
           /\ HasVisibleText(childNodes)
           /\ doc = <<TextNode(display, "none", childNodes)>>
  /\ elements = SingleTarget(doc)
  /\ pc = "collect"
  /\ idx = 1
  /\ slides = <<>>
  /\ warned = <<>>
  /\ layoutConfig = NoConfig
  /\ renderQueue = <<>>
  /\ domOrderCounter = 0
  /\ stack = <<>>
  /\ visitLog = <<>>
  /\ fileWritten = FALSE
  /\ fileSaved = FALSE

\* createRenderItem on a text container, up to its textParts
TextAssemble ==
  /\ pc = "collect"
  /\ renderQueue' = TextParts(doc[1])
  /\ pc' = "done"
  /\ UNCHANGED <<doc, elements, idx, slides, warned, layoutConfig,
                 domOrderCounter, stack, visitLog, fileWritten,
                 fileSaved>>

TextSpec == TextInit /\ [][TextAssemble]_vars

\* s with the two replacements of the assembler, untrimmed
Collapsed(s) == ReplaceRuns(ReplaceRuns(s, LineBreaks, 1), WhiteSpace, 2)

\* C12: in the emitted runs the first has no leading whitespace, the last
\* has no trailing whitespace, no run is empty, and no other boundary of a
\* run is trimmed; also when the first or last child node is whitespace
\* only and is dropped.
C12_RunsTrimmedAtTheEnds ==
  pc = "done" /\ renderQueue # <<>> =>
    LET runs == renderQueue
        last == runs[Len(runs)].text
        source(j) == Collapsed(doc[1].childNodes[runs[j].index + 1].text)
    IN /\ \A j \in 1..Len(runs) : runs[j].text # <<>>
       /\ runs[1].text[1] \notin WhiteSpace
       /\ last[Len(last)] \notin WhiteSpace
       /\ \A j \in 1..Len(runs) :
            runs[j].index >= 0 =>
              /\ j > 1 => runs[j].text[1] = source(j)[1]
              /\ j < Len(runs) =>
                   runs[j].text[Len(runs[j].text)] = source(j)[Len(source(j))]

\* ------------------------------------------ utils.js: getVisibleShadow

\* One entry of a computed box-shadow list, "<color> <x>px <y>px <blur>px
\* <spread>px" with " inset" after it for an inset shadow.  The color is a
\* colour string; a keyword colour has the format "keyword".
ShadowEntry(color, x, y, blur, inset) ==
  [color |-> color, x |-> x, y |-> y, blur |-> blur, inset |-> inset]

\* s.startsWith("rgba(0, 0, 0, 0)")
StartsWithTransparentBlack(entry) ==
  /\ entry.color.fmt = "rgba" /\ entry.color.spaced
  /\ entry.color.r = 0 /\ entry.color.g = 0 /\ entry.color.b = 0
  /\ entry.color.a = 0

\* The regular expression finds "rgb(..)", "rgba(..)" or "#hex" followed
\* by three px lengths, the third without a sign, anywhere in the entry:
\* what follows them (the spread, "inset") is not looked at.
ShadowMatches(entry) ==
  /\ entry.color.fmt \in {"rgb", "rgba", "hex"}
  /\ entry.blur >= 0

NoShadow == [type |-> "null"]

\* The descriptor made of the entry at position i; the offsets and the
\* blur are kept in px.
ShadowOf(shadows, i) ==
  LET colorObj == parseColor(shadows[i].color)
  IN [type |-> "outer", source |-> i, x |-> shadows[i].x,
      y |-> shadows[i].y, blur |-> shadows[i].blur,
      color |-> IF colorObj.hex # NoHex THEN colorObj.hex ELSE <<0, 0, 0>>,
      opacity |-> colorObj.opacity]

\* getVisibleShadow(shadowStr, scale), shadowStr not "none": the first
\* entry that does not start with "rgba(0, 0, 0, 0)" and that matches.
getVisibleShadow(shadows) ==
  LET found == {i \in 1..Len(shadows) :
                  /\ ~StartsWithTransparentBlack(shadows[i])
                  /\ ShadowMatches(shadows[i])}
  IN IF found = {} THEN NoShadow
     ELSE ShadowOf(shadows, CHOOSE i \in found : \A j \in found : i <= j)

\* Most entries of a box-shadow list.
MaxShadows == 3

HalfBlack == Color("rgba", TRUE, 0, 0, 0, 50)
TransparentBlack == Color("rgba", TRUE, 0, 0, 0, 0)
TransparentRed == Color("rgba", TRUE, 255, 0, 0, 0)

ShadowEntries ==
  {ShadowEntry(HalfBlack, 0, 4, 6, FALSE),
   ShadowEntry(Red, 2, -2, 0, FALSE),
   ShadowEntry(TransparentBlack, 0, 0, 0, FALSE),
   ShadowEntry(TransparentRed, 0, 0, 0, FALSE),
   ShadowEntry(HalfBlack, 0, 2, 4, TRUE),
   ShadowEntry(TransparentBlack, 0, 0, 0, TRUE)}

\* One node with a box-shadow list, its shadow resolved.
ShadowInit ==
  /\ \E n \in 1..MaxShadows :
       \E shadows \in [1..n -> ShadowEntries] :
         doc = <<[BaseNode EXCEPT !.boxShadow = shadows]>>
  /\ elements = SingleTarget(doc)
  /\ pc = "collect"
  /\ idx = 1
  /\ slides = <<>>
  /\ warned = <<>>
  /\ layoutConfig = NoConfig
  /\ renderQueue = <<>>
  /\ domOrderCounter = 0
  /\ stack = <<>>
  /\ visitLog = <<>>
  /\ fileWritten = FALSE
  /\ fileSaved = FALSE

\* createRenderItem, line 368: shapeOpts.shadow
ShadowResolve ==
  /\ pc = "collect"
  /\ renderQueue' = <<getVisibleShadow(doc[1].boxShadow)>>
  /\ pc' = "done"
  /\ UNCHANGED <<doc, elements, idx, slides, warned, layoutConfig,
                 domOrderCounter, stack, visitLog, fileWritten,
                 fileSaved>>

ShadowSpec == ShadowInit /\ [][ShadowResolve]_vars

\* The entry paints nothing (its colour has alpha 0), or is inset.
FullyTransparent(entry) ==
  entry.color.fmt = "transparent" \/ parseColor(entry.color).opacity = 0

Eligible(shadows) ==
  {i \in 1..Len(shadows) :
     ~FullyTransparent(shadows[i]) /\ ~shadows[i].inset}

\* C13: getVisibleShadow returns the descriptor of the first entry that is
\* neither fully transparent nor inset, and null when every entry is inset
\* or fully transparent.
C13_FirstVisibleOuterShadow ==
  pc = "done" /\ Len(renderQueue) = 1 /\ doc[1].boxShadow # <<>> =>
    LET shadows == doc[1].boxShadow
        shadow == renderQueue[1]
    IN IF Eligible(shadows) = {} THEN shadow = NoShadow
       ELSE /\ shadow # NoShadow
            /\ shadow.source \in Eligible(shadows)
            /\ \A j \in Eligible(shadows) : shadow.source <= j

\* --------------------------------- utils.js: the stops of a gradient

\* The argument list of linear-gradient(...), by its comma-separated
\* parts: a direction term ("" when there is none, a keyword such as
\* "to right", or an angle such as "135deg") and the colour stops, each a
\* colour with an explicit offset in percent or without one (NoOffset).
NoOffset == -1
ColorStop(color, offset) == [color |-> color, offset |-> offset]
Gradient(direction, stops) == [direction |-> direction, stops |-> stops]

\* content.split(/,(?![^(]*\))/).map((p) => p.trim()): a part is the
\* direction term or a stop.
GradientParts(gradient) ==
  (IF gradient.direction = "" THEN <<>>
   ELSE <<ColorStop(gradient.direction, NoOffset)>>)
  \o gradient.stops

\* parts[0].includes("to right"), ... "to left", "to top", "to bottom"
IncludesSideKeyword(part) ==
  part.color \in {"to right", "to left", "to top", "to bottom",
                  "to top right", "to bottom left"}

\* Math.round((i / (n - 1)) * 100) + "%": "NaN%" for a single stop.  For
\* the n of the model the quotient is no tie and the division by n - 1 is
\* exact to the rounding.
NaN == [nan |-> TRUE, value |-> 0]
Percent(value) == [nan |-> FALSE, value |-> value]

EvenOffset(i, n) ==
  IF n = 1 THEN NaN
  ELSE Percent((200 * i + (n - 1)) \div (2 * (n - 1)))

\* The stops written to stopsXML, in order: the color and the offset of
\* each part from stopsStartIdx on.
GradientStops(gradient) ==
  LET parts == GradientParts(gradient)
      stopsStartIdx == IF parts # <<>> /\ IncludesSideKeyword(parts[1])
                       THEN 1 ELSE 0
      stopParts == SubSeq(parts, stopsStartIdx + 1, Len(parts))
  IN [k \in 1..Len(stopParts) |->
        [color |-> stopParts[k].color,
         offset |-> IF stopParts[k].offset # NoOffset
                    THEN Percent(stopParts[k].offset)
                    ELSE EvenOffset(k - 1, Len(stopParts))]]

\* Most colour stops of a gradient.
MaxStops == 3

Directions == {"", "to right", "to left", "to top", "to top right", "135deg"}
ColorStops ==
  {ColorStop("rgb(255, 0, 0)", NoOffset), ColorStop("rgb(0, 0, 255)", NoOffset),
   ColorStop("rgb(0, 128, 0)", 20), ColorStop("rgb(0, 0, 255)", 80)}

\* One node with a linear-gradient background, its stops written.
GradientInit ==
  /\ \E n \in 1..MaxStops :
       \E stops \in [1..n -> ColorStops] :
         \E direction \in Directions :
           doc = <<[BaseNode EXCEPT
                      !.backgroundImage = Gradient(direction, stops)]>>
  /\ elements = SingleTarget(doc)
  /\ pc = "collect"
  /\ idx = 1
  /\ slides = <<>>
  /\ warned = <<>>
  /\ layoutConfig = NoConfig
  /\ renderQueue = <<>>
  /\ domOrderCounter = 0
  /\ stack = <<>>
  /\ visitLog = <<>>
  /\ fileWritten = FALSE
  /\ fileSaved = FALSE

\* createRenderItem, lines 283-289: generateGradientSVG, up to stopsXML
GradientWriteStops ==
  /\ pc = "collect"
  /\ renderQueue' = GradientStops(doc[1].backgroundImage)
  /\ pc' = "done"
  /\ UNCHANGED <<doc, elements, idx, slides, warned, layoutConfig,
                 domOrderCounter, stack, visitLog, fileWritten,
                 fileSaved>>

GradientSpec == GradientInit /\ [][GradientWriteStops]_vars

\* C14: the stops emitted are the colour stops of the input, in source
\* order: the direction term is never a stop, and a stop without an
\* explicit offset gets the offset 100 * i / (n - 1) of its index i among
\* the n stops, which lies in [0, 100].
C14_StopsAreTheColorStops ==
  pc = "done" =>
    LET stops == doc[1].backgroundImage.stops
        n == Len(stops)
        at(k) == renderQueue[k].offset.value
    IN /\ Len(renderQueue) = n
       /\ \A k \in 1..Len(renderQueue) :
            /\ k <= n => renderQueue[k].color = stops[k].color
            /\ ~renderQueue[k].offset.nan
            /\ at(k) \in 0..100
            /\ k <= n /\ n > 1 /\ stops[k].offset = NoOffset =>
                 /\ 2 * at(k) * (n - 1) >= 200 * (k - 1) - (n - 1)
                 /\ 2 * at(k) * (n - 1) <= 200 * (k - 1) + (n - 1)

\* --------------------------------------------- utils.js: parseColor

HexDigits == {"0", "f", "A"}

\* The colour strings of the model: the keyword, the empty string, rgb and
\* rgba functions with and without spaces after the commas, and "#"
\* strings of three and of six digits.
ColorStrings ==
  {Transparent, Color("empty", TRUE, 0, 0, 0, 0)}
  \cup {Color(fmt, spaced, r, g, b, a) :
          fmt \in {"rgba"}, spaced \in BOOLEAN, r \in {0, 255}, g \in {0},
          b \in {0, 255}, a \in {0, 50, 100}}
  \cup {Color("rgb", spaced, r, 0, b, 100) :
          spaced \in BOOLEAN, r \in {0, 255}, b \in {0, 255}}
  \cup {HexColor(digits) : digits \in [1..3 -> HexDigits]}
  \cup {HexColor(digits) : digits \in [1..6 -> HexDigits]}

\* One node with a background colour, the colour parsed.
ColorInit ==
  /\ \E str \in ColorStrings :
       doc = <<[BaseNode EXCEPT !.backgroundColor = str]>>
  /\ elements = SingleTarget(doc)
  /\ pc = "collect"
  /\ idx = 1
  /\ slides = <<>>
  /\ warned = <<>>
  /\ layoutConfig = NoConfig
  /\ renderQueue = <<>>
  /\ domOrderCounter = 0
  /\ stack = <<>>
  /\ visitLog = <<>>
  /\ fileWritten = FALSE
  /\ fileSaved = FALSE

\* createRenderItem, line 175: bgColorObj
ColorParse ==
  /\ pc = "collect"
  /\ renderQueue' = <<parseColor(doc[1].backgroundColor)>>
  /\ pc' = "done"
  /\ UNCHANGED <<doc, elements, idx, slides, warned, layoutConfig,
                 domOrderCounter, stack, visitLog, fileWritten,
                 fileSaved>>

ColorSpec == ColorInit /\ [][ColorParse]_vars

\* The colour paints nothing: the keyword, or an alpha of 0.
IsFullyTransparentColor(str) ==
  \/ str.fmt = "transparent"
  \/ str.fmt = "rgba" /\ str.a = 0

\* d is the digit c, in upper case if c is a letter.
IsUpperOf(d, c) ==
  <<c, d>> \in {<<"0", "0">>, <<"f", "F">>, <<"A", "A">>, <<"F", "F">>}

\* C15: parseColor maps every fully transparent colour string, rgba with
\* alpha 0 written with or without spaces included, to {hex: null,
\* opacity: 0}, and every "#" string of 3 or 6 digits to its 6 digits in
\* upper case with opacity 1.
C15_TransparentAndHexColors ==
  pc = "done" =>
    LET str == doc[1].backgroundColor
        out == renderQueue[1]
    IN /\ IsFullyTransparentColor(str) =>
            out = [hex |-> NoHex, opacity |-> 0]
       /\ str.fmt = "hex" =>
            /\ out.opacity = 100
            /\ Len(out.hex) = 6
            /\ \A i \in 1..6 :
                 IsUpperOf(out.hex[i],
                           IF Len(str.digits) = 3
                           THEN str.digits[(i + 1) \div 2]
                           ELSE str.digits[i])

\* ------------------------------------------ index.js: the shape options

One == DoubleOfInt[1]

\* borderRadius / (Math.min(widthPx, heightPx) / 2), not capped at 1
RectRadiusUncapped(borderRadius, widthPx, heightPx) ==
  LET m == IF widthPx < heightPx THEN widthPx ELSE heightPx
  IN FDiv[DoubleOfInt[borderRadius], FDiv[DoubleOfInt[m], DoubleOfInt[2]]]

\* shapeOpts.rectRadius of a roundRect
RectRadius(borderRadius, widthPx, heightPx) ==
  LET m == IF widthPx < heightPx THEN widthPx ELSE heightPx
  IN FMin[One, FDiv[DoubleOfInt[borderRadius],
                    FDiv[DoubleOfInt[m], DoubleOfInt[2]]]]

\* The shape type and the rectRadius option of the item the shape branch
\* emits for the node; rectRadius is set for a roundRect only.
ShapeOptions(node) ==
  LET widthPx == IF node.offsetWidth # 0 THEN node.offsetWidth
                 ELSE node.rect.width
      heightPx == IF node.offsetHeight # 0 THEN node.offsetHeight
                  ELSE node.rect.height
      shapeType == ShapeTypeOf(node.borderRadius, widthPx, heightPx)
  IN [shapeType |-> shapeType,
      hasRectRadius |-> shapeType = "roundRect",
      rectRadius |-> IF shapeType = "roundRect"
                     THEN RectRadius(node.borderRadius, widthPx, heightPx)
                     ELSE Zero]

ShapeSizes == {1, 2, 3, 4, 10, 11, 12, 48, 96}
ShapeRadii == {0, 1, 2, 4, 5, 6, 24, 48, 1000}

\* A node with a solid fill, with or without text, of the given layout
\* box and border radius.
ShapeNode(base, width, height, radius) ==
  [base EXCEPT !.rect = Rect(0, 0, width, height), !.offsetWidth = width,
               !.offsetHeight = height, !.borderRadius = radius]

ShapeInit ==
  /\ \E width \in ShapeSizes, height \in ShapeSizes, radius \in ShapeRadii :
       \E base \in {Solid, [Solid EXCEPT !.ownText = TRUE]} :
         doc = <<ShapeNode(base, width, height, radius)>>
  /\ elements = SingleTarget(doc)
  /\ pc = "collect"
  /\ idx = 1
  /\ slides = <<>>
  /\ warned = <<>>
  /\ layoutConfig = LayoutConfig(doc[1].rect)
  /\ renderQueue = <<>>
  /\ domOrderCounter = 0
  /\ stack = <<1>>
  /\ visitLog = <<>>
  /\ fileWritten = FALSE
  /\ fileSaved = FALSE

\* createRenderItem on the node: its items, those of the shape branch with
\* their shape options
ShapeCreateRenderItem ==
  /\ pc = "collect"
  /\ LET items == createRenderItem(doc, 1, layoutConfig, domOrderCounter,
                                   NoData).items
     IN renderQueue' =
          [i \in 1..Len(items) |->
             [item |-> items[i], options |-> ShapeOptions(doc[1])]]
  /\ domOrderCounter' = domOrderCounter + 1
  /\ stack' = <<>>
  /\ pc' = "done"
  /\ UNCHANGED <<doc, elements, idx, slides, warned, layoutConfig,
                 visitLog, fileWritten, fileSaved>>

ShapeSpec == ShapeInit /\ [][ShapeCreateRenderItem]_vars

\* r >= min(w, h) / 2 - 1 and |w - h| < 2, as numbers
IsEllipseBox(w, h, r) ==
  LET m == IF w < h THEN w ELSE h
      halfLessOne == ExactSub[FDiv[DoubleOfInt[m], DoubleOfInt[2]], One]
  IN /\ ExactCmp[DoubleOfInt[r], halfLessOne] >= 0
     /\ w - h < 2 /\ h - w < 2

\* C16: the shape a node emits is an ellipse exactly when r >= min(w, h) /
\* 2 - 1 and |w - h| < 2, otherwise a roundRect exactly when r > 0,
\* otherwise a rect; and the rectRadius of a roundRect lies in (0, 1].
C16_ShapeKindAndRadius ==
  pc = "done" =>
    /\ Len(renderQueue) = 1
    /\ LET w == doc[1].offsetWidth
           h == doc[1].offsetHeight
           r == doc[1].borderRadius
           shape == renderQueue[1]
       IN /\ shape.item.shapeType = shape.options.shapeType
          /\ shape.item.shapeType = "ellipse" <=> IsEllipseBox(w, h, r)
          /\ shape.item.shapeType = "roundRect"
               <=> ~IsEllipseBox(w, h, r) /\ r > 0
          /\ shape.item.shapeType = "rect" <=> ~IsEllipseBox(w, h, r) /\ r = 0
          /\ shape.options.hasRectRadius
               <=> shape.item.shapeType = "roundRect"
          /\ shape.options.hasRectRadius =>
               /\ ExactCmp[shape.options.rectRadius, Zero] > 0
               /\ ExactCmp[shape.options.rectRadius, One] <= 0

\* A roundRect whose radius is larger than half its smaller side, and is
\* capped at 1.
C16_Witness ==
  /\ pc = "done"
  /\ Len(renderQueue) = 1
  /\ renderQueue[1].item.shapeType = "roundRect"
  /\ 2 * doc[1].borderRadius > doc[1].offsetHeight
  /\ renderQueue[1].options.rectRadius = One

\* ------------------------------------------------- composite borders

\* The positions in the items of slide k of the items of the visit e that
\* are rectangles along a side, and of those that are the overlay image
\* of a composite border.
SideRectangles(k, e) ==
  {i \in 1..Len(ItemsOfSlide(k)) :
     /\ ItemsOfSlide(k)[i].domOrder = e.order
     /\ ItemsOfSlide(k)[i].type = "shape"
     /\ ItemsOfSlide(k)[i].geom.part \in {"top", "right", "bottom", "left"}}

BorderOverlays(k, e) ==
  {i \in 1..Len(ItemsOfSlide(k)) :
     /\ ItemsOfSlide(k)[i].domOrder = e.order
     /\ ItemsOfSlide(k)[i].type = "image"
     /\ ItemsOfSlide(k)[i].data = "borderSVG"}

\* C17: a visited node with a composite border gets, when its border
\* radius is 0, one rectangle item per side of positive width, along that
\* side and at zIndex + 1, and no overlay image; and when its border
\* radius is positive, exactly one overlay image and no rectangle;
\* whatever its background.
C17_BorderStrategyByRoundedness ==
  \A j \in 1..Len(visitLog) :
    LET e == visitLog[j]
        node == doc[e.node]
        k == e.slide
        items == ItemsOfSlide(k)
    IN e.kind = "result" /\ getBorderInfo(node.border).type = "composite" =>
         IF node.borderRadius = 0
         THEN /\ BorderOverlays(k, e) = {}
              /\ \A side \in 1..4 :
                   Cardinality({i \in SideRectangles(k, e) :
                                  items[i].geom.part = SideName(side)})
                     = IF node.border[side] > 0 THEN 1 ELSE 0
              /\ \A i \in SideRectangles(k, e) :
                   items[i].zIndex = ResolveZIndex(node) + 1
         ELSE /\ Cardinality(BorderOverlays(k, e)) = 1
              /\ SideRectangles(k, e) = {}

\* ----------------------------------------------------- image wrappers

\* The item paints the background of the node it was made for: a shape or
\* merged text with a fill colour, or the image of a gradient or of a
\* blurred fill.
PaintsBackground(item) ==
  \/ item.geom.part = "box" /\ item.fill # NoFill
  \/ item.type = "image" /\ item.data \in {"gradientSVG", "blurSVG"}

\* C18: a visited node that is an image wrapper leaves no item that paints
\* its own background, be it a solid colour, a gradient or a blurred fill.
C18_WrapperPaintsNoBackground ==
  \A j \in 1..Len(visitLog) :
    LET e == visitLog[j]
    IN /\ e.kind = "result"
       /\ doc[e.node].tag \notin {"SVG", "IMG"}
       /\ isImageWrapper(doc, e.node)
       => \A x \in Range(ItemsOfSlide(e.slide)) :
            x.domOrder = e.order => ~PaintsBackground(x)

\* ------------------------------------------- shapes of plain containers

\* Single nodes without a fill and with a solid fill, without a border and
\* with a uniform border, and with box-shadow lists of visible, of fully
\* transparent and of inset entries.
ShadowLists ==
  {<<>>,
   <<ShadowEntry(HalfBlack, 0, 4, 6, FALSE)>>,
   <<ShadowEntry(TransparentBlack, 0, 0, 0, FALSE)>>,
   <<ShadowEntry(TransparentBlack, 0, 0, 0, FALSE),
     ShadowEntry(TransparentBlack, 0, 0, 0, FALSE)>>,
   <<ShadowEntry(TransparentBlack, 0, 0, 0, FALSE),
     ShadowEntry(Red, 2, -2, 0, FALSE)>>}

ShadowDocs ==
  {<<[base EXCEPT !.boxShadow = shadows, !.border = border]>> :
     base \in {Plain, Solid}, shadows \in ShadowLists,
     border \in {<<0, 0, 0, 0>>, <<1, 1, 1, 1>>}}

\* Parents with a z-index of their own over children with another one or
\* none: children with a base item and overlays (a gradient with text and
\* a composite border, a solid fill with a rounded composite border) and
\* children with a base item only.
StackParents == {[Solid EXCEPT !.zIndex = "2"], [Plain EXCEPT !.zIndex = "1"]}
StackChildren ==
  {[GradTextBorder EXCEPT !.zIndex = z] : z \in {"auto", "-1", "1"}}
  \cup {[SolidBorder EXCEPT !.zIndex = z, !.borderRadius = 8] :
          z \in {"auto", "1"}}
  \cup {Solid}

StackDocs == ParentWith(StackParents, StackChildren)

\* The documents of one root classified by its paint and its children.
PaintDocs ==
  InlineDocs \cup BorderDocs \cup WrapperDocs \cup ShadowDocs
    \cup StackDocs

PaintInit ==
  /\ doc \in PaintDocs
  /\ elements = SingleTarget(doc)
  /\ pc = "loop"
  /\ idx = 1
  /\ slides = <<>>
  /\ warned = <<>>
  /\ layoutConfig = NoConfig
  /\ renderQueue = <<>>
  /\ domOrderCounter = 0
  /\ stack = <<>>
  /\ visitLog = <<>>
  /\ fileWritten = FALSE
  /\ fileSaved = FALSE

PaintNext ==
  StartSlide \/ Collect \/ FinishSlide \/ WriteFile \/ WriteFileResolves

PaintSpec == PaintInit /\ [][PaintNext]_vars

\* The node has a fill, a border or a shadow that is seen.
HasVisiblePaint(node) ==
  \/ /\ parseColor(node.backgroundColor).hex # NoHex
     /\ parseColor(node.backgroundColor).opacity > 0
  \/ /\ \E i \in 1..4 : node.border[i] > 0
     /\ parseColor(node.borderColor).hex # NoHex
  \/ Eligible(node.boxShadow) # {}

\* A generic container that paints with a shape: no SVG, no IMG, no text
\* container, no image wrapper, no gradient and no blurred fill.
IsPlainContainer(d, n) ==
  /\ d[n].tag \notin {"SVG", "IMG"}
  /\ ~isTextContainer(d, n)
  /\ ~isImageWrapper(d, n)
  /\ d[n].backgroundImage = "none"
  /\ d[n].filterBlur = 0

\* C19: a visited generic container leaves a Shape item if and only if it
\* has a visible fill, a visible border or a visible shadow; a node with
\* fully transparent box-shadow entries only and no fill and no border
\* leaves no item.
C19_ShapeIffVisiblePaint ==
  \A j \in 1..Len(visitLog) :
    LET e == visitLog[j]
        mine == {x \in Range(ItemsOfSlide(e.slide)) : x.domOrder = e.order}
    IN e.kind = "result" /\ IsPlainContainer(doc, e.node) =>
         /\ (\E x \in mine : x.type = "shape" /\ x.geom.part = "box")
              <=> HasVisiblePaint(doc[e.node])
         /\ ~HasVisiblePaint(doc[e.node]) => mine = {}

\* ------------------------------------------------- the order of an export

\* Every resolvable root has its slide, sorted and written to.
EverySlidePopulated ==
  /\ Len(slides) = Len(ResolvableRoots(elements))
  /\ \A k \in 1..Len(slides) : Finished(k)
  /\ stack = <<>>

\* C20: in every execution of exportToPptx every resolvable root's slide
\* is populated before the file write starts, the write starts once, and
\* the promise exportToPptx returned resolves only after the write has
\* completed.
C20_WriteCompletesBeforeResolve ==
  /\ [](fileWritten => EverySlidePopulated)
  /\ [][fileWritten => fileWritten' /\ UNCHANGED slides]_vars
  /\ [](fileSaved => fileWritten)
  /\ [](pc = "done" => fileSaved)

\* ------------------------------------------- the subtree of a skipped node

\* C21: no item of a slide's queue comes from a descendant of a node
\* skipped for display:none, visibility:hidden or opacity:0, also when the
\* descendant's own opacity is not 0.
C21_SkippedSubtreeNoItem ==
  \A j \in 1..Len(visitLog) :
    LET e == visitLog[j]
    IN (\E a \in Ancestors(doc, e.node) : IsHiddenStyle(doc[a]))
         => \A x \in Range(ItemsOfSlide(e.slide)) : x.domOrder # e.order

\* ------------------------------------------------ the layers of one node

\* The z-index the node's own computed style gives: the integer its string
\* denotes, or 0 for auto.
OwnZIndex(node) ==
  IF node.zIndex = "auto" THEN 0
  ELSE CHOOSE z \in -9..9 : ToString(z) = node.zIndex

\* The visits of slide k that gave the order to an item.
VisitsOf(k, order) ==
  {j \in 1..Len(visitLog) :
     visitLog[j].slide = k /\ visitLog[j].order = order}

\* The item lies over the base item of its node: the text over a gradient,
\* a rectangle along a side of a composite border, or the image of one.
IsOverlay(item, node) ==
  \/ item.type = "text" /\ node.backgroundImage # "none"
  \/ item.type = "shape"
       /\ item.geom.part \in {"top", "right", "bottom", "left"}
  \/ item.type = "image" /\ item.data = "borderSVG"

====
